---- MODULE Spec2Model ----
(***************************************************************************)
(* Model of the icli multicall dispatcher (src/lib.rs): the registry of    *)
(* Tasks, parse / run / run_batch, the recursive action and suggests of    *)
(* the Dispatcher, and the interactive read-eval loop with its Tab and     *)
(* Ctrl-C key handlers.                                                    *)
(*                                                                         *)
(* A character is a one-character string; a Rust &str / String is a        *)
(* sequence of characters; an argv is a sequence of such sequences.        *)
(***************************************************************************)
EXTENDS Integers, Sequences, FiniteSets, TLC

VARIABLES
    cmds,       \* Cli.cmds: the registry, a function from names to Tasks
    shared,     \* the Cli has been moved into an Arc (add_task impossible)
    op,         \* the operation called last and its input
    ret,        \* the value the operation returned (<<>> while it runs)
    invoked,    \* Task::action invocations made by the operation, in order
    consulted,  \* number of calls the operation made to the grammar parser
    pc,         \* position of run_interactive_with
    buffer,     \* the editing engine's edit buffer (state.0.editor)
    line,       \* the line prompt.run() returned to the loop
    printed,    \* what the loop printed with println!
    typed,      \* number of pieces typed since the last line was submitted
    nread,      \* number of lines the session has read
    key,        \* the key event handled last and what its handler returned
    asked       \* Task::suggests calls made by the operation or handler, in order

vars == <<cmds, shared, op, ret, invoked, consulted, pc, buffer, line, printed, typed, nread,
          key, asked>>

-----------------------------------------------------------------------------
(* Bounds of the model.                                                    *)

MaxPieces == 3      \* pieces concatenated into one line for parse / run
MaxFrags == 3       \* fragments joined into one run_batch text
MaxTokens == 3      \* tokens handed to suggests
MaxBuf == 1         \* pieces typed into the edit buffer for one line
MaxLines == 2       \* lines one interactive session reads

-----------------------------------------------------------------------------
(* Values.                                                                 *)

None == <<>>
Some(x) == <<x>>
Ok(x) == <<"Ok", x>>
Err(e) == <<"Err", e>>
IsOk(r) == r # <<>> /\ r[1] = "Ok"
IsErr(r) == r # <<>> /\ r[1] = "Err"

TaskAction == {"Continue", "Break", "Exit"}

\* a panic of the process (HashMap index of an absent key, unwrap of None)
Panic == <<"Panic">>
Panicked == "panicked"

InvalidQuoting == "error: Invalid quoting"
UnrecognizedSubcommand == "error: unrecognized subcommand"
UnexpectedArgument == "error: unexpected argument"
HelpText == "Commands: ..."
ReadError == "editing engine: read failed"
BuildError == "editing engine: build failed"

\* the words used in lines, names and tokens
deploy == <<"d", "e", "p", "l", "o", "y">>
dep == <<"d", "e", "p">>
status == <<"s", "t", "a", "t", "u", "s">>
sub == <<"s", "u", "b">>
up == <<"u", "p">>
help == <<"h", "e", "l", "p">>
he == <<"h", "e">>
force == <<"-", "-", "f", "o", "r", "c", "e">>
fo == <<"-", "-", "f", "o">>
x == <<"x">>

-----------------------------------------------------------------------------
(* str primitives of the standard library, as the code uses them.          *)

\* char::is_whitespace (White_Space), on the characters of the model
IsWhitespace(c) == c \in {" ", "\t", "\n", "\r"}

RECURSIVE TrimStart(_)
TrimStart(s) ==
    IF s = <<>> \/ ~IsWhitespace(Head(s)) THEN s ELSE TrimStart(Tail(s))

RECURSIVE TrimEnd(_)
TrimEnd(s) ==
    IF s = <<>> \/ ~IsWhitespace(s[Len(s)]) THEN s
    ELSE TrimEnd(SubSeq(s, 1, Len(s) - 1))

\* str::trim
Trim(s) == TrimEnd(TrimStart(s))

RECURSIVE SplitFrom(_, _, _)
SplitFrom(s, sep, cur) ==
    IF s = <<>> THEN <<cur>>
    ELSE IF Head(s) = sep THEN <<cur>> \o SplitFrom(Tail(s), sep, <<>>)
    ELSE SplitFrom(Tail(s), sep, Append(cur, Head(s)))

\* str::split(char): the segments between separators, empty ones included
Split(s, sep) == SplitFrom(s, sep, <<>>)

RECURSIVE SplitWhitespaceFrom(_, _)
SplitWhitespaceFrom(s, cur) ==
    IF s = <<>> THEN (IF cur = <<>> THEN <<>> ELSE <<cur>>)
    ELSE IF IsWhitespace(Head(s))
         THEN (IF cur = <<>> THEN <<>> ELSE <<cur>>) \o SplitWhitespaceFrom(Tail(s), <<>>)
         ELSE SplitWhitespaceFrom(Tail(s), Append(cur, Head(s)))

\* str::split_whitespace: the non-empty runs of non-whitespace
SplitWhitespace(s) == SplitWhitespaceFrom(s, <<>>)

RECURSIVE Join(_, _)
\* [..].join(sep)
Join(ss, sep) ==
    IF ss = <<>> THEN <<>>
    ELSE IF Len(ss) = 1 THEN ss[1]
    ELSE ss[1] \o sep \o Join(Tail(ss), sep)

IsPrefix(p, s) == Len(p) <= Len(s) /\ SubSeq(s, 1, Len(p)) = p

-----------------------------------------------------------------------------
(* shlex::split, the shell tokenizer called by parse.                      *)

ShlexSpace(c) == c \in {" ", "\t", "\n"}

\* the characters a backslash escapes inside double quotes (the dollar sign
\* and the backquote, which shlex also escapes, are not characters of the model)
DqEscapable == {"\"", "\\"}

RECURSIVE Shlex(_, _, _, _, _)
\* mode: "skip" between words, "comment" after #, "word", "dq", "sq";
\* the result is Some(argv), or None when quoting is invalid
Shlex(s, i, mode, cur, out) ==
    IF i > Len(s) THEN
        CASE mode \in {"skip", "comment"} -> Some(out)
          [] mode = "word" -> Some(Append(out, cur))
          [] OTHER -> None
    ELSE
        LET c == s[i] IN
        CASE mode = "skip" ->
                IF ShlexSpace(c) THEN Shlex(s, i + 1, "skip", <<>>, out)
                ELSE IF c = "#" THEN Shlex(s, i + 1, "comment", <<>>, out)
                ELSE Shlex(s, i, "word", <<>>, out)
          [] mode = "comment" ->
                IF c = "\n" THEN Shlex(s, i + 1, "skip", <<>>, out)
                ELSE Shlex(s, i + 1, "comment", <<>>, out)
          [] mode = "word" ->
                IF c = "\"" THEN Shlex(s, i + 1, "dq", cur, out)
                ELSE IF c = "'" THEN Shlex(s, i + 1, "sq", cur, out)
                ELSE IF c = "\\" THEN
                    IF i + 1 > Len(s) THEN None
                    ELSE IF s[i + 1] = "\n" THEN Shlex(s, i + 2, "word", cur, out)
                    ELSE Shlex(s, i + 2, "word", Append(cur, s[i + 1]), out)
                ELSE IF ShlexSpace(c) THEN Shlex(s, i + 1, "skip", <<>>, Append(out, cur))
                ELSE Shlex(s, i + 1, "word", Append(cur, c), out)
          [] mode = "dq" ->
                IF c = "\\" THEN
                    IF i + 1 > Len(s) THEN None
                    ELSE IF s[i + 1] \in DqEscapable
                         THEN Shlex(s, i + 2, "dq", Append(cur, s[i + 1]), out)
                    ELSE IF s[i + 1] = "\n" THEN Shlex(s, i + 2, "dq", cur, out)
                    ELSE Shlex(s, i + 2, "dq", cur \o <<"\\", s[i + 1]>>, out)
                ELSE IF c = "\"" THEN Shlex(s, i + 1, "word", cur, out)
                ELSE Shlex(s, i + 1, "dq", Append(cur, c), out)
          [] OTHER ->
                IF c = "'" THEN Shlex(s, i + 1, "word", cur, out)
                ELSE Shlex(s, i + 1, "sq", Append(cur, c), out)

ShlexSplit(s) == Shlex(s, 1, "skip", <<>>, <<>>)

-----------------------------------------------------------------------------
(* The Tasks a caller registers (implementations of trait Task). Three are *)
(* leaf commands, two of them under the same name, and one is itself a Cli *)
(* holding one leaf command.                                               *)

Tasks == {"T_deploy", "T_deploy2", "T_status", "T_sub"}

\* t.command().get_name()
TaskName(t) ==
    CASE t \in {"T_deploy", "T_deploy2"} -> deploy
      [] t = "T_status" -> status
      [] t = "T_sub" -> sub
      [] OTHER -> up

\* whether the Task is itself a Cli (impl Task for Cli)
IsCli(t) == t = "T_sub"

\* the registry of the nested Cli
TaskCmds(t) == [n \in {up} |-> "T_up"]

\* the arguments a leaf Task's own grammar accepts
LeafAccepts(t, args) ==
    IF t = "T_status" THEN args = <<>> ELSE Len(args) <= 1

\* what a leaf Task's action returns
LeafAction(t, args) ==
    CASE t = "T_deploy" -> "Continue"
      [] t = "T_status" -> "Break"
      [] t = "T_deploy2" -> "Exit"
      [] OTHER -> IF args = <<x>> THEN "Exit" ELSE "Continue"

\* what a leaf Task's suggests returns
LeafSuggests(t, args) ==
    CASE t = "T_deploy" ->
            IF args # <<>> /\ IsPrefix(args[1], force) THEN Some(force) ELSE None
      [] t = "T_status" -> None
      [] t = "T_deploy2" -> Some(force)
      [] OTHER -> IF args = <<>> THEN None ELSE Some(args[1])

-----------------------------------------------------------------------------
(* The registry and the merged grammar.                                    *)

\* an insert that keeps the Task already registered under the name
InsertFirstWins(reg, t) ==
    [n \in DOMAIN reg \cup {TaskName(t)} |-> IF n \in DOMAIN reg THEN reg[n] ELSE t]

\* HashMap::insert under the Task's command name
Insert(reg, t) ==
    [n \in DOMAIN reg \cup {TaskName(t)} |-> IF n = TaskName(t) THEN t ELSE reg[n]]

\* Cli::command: the root command with one subcommand per registered Task,
\* each named by that Task's own command
Command(reg) == {[name |-> TaskName(reg[n]), of |-> reg[n]] : n \in DOMAIN reg}

RECURSIVE TryGetMatchesFrom(_, _)
\* clap's Command::try_get_matches_from on a subcommand_required command:
\* Ok(ArgMatches) naming the selected subcommand, or Err(message)
TryGetMatchesFrom(cmd, args) ==
    IF args = <<>> THEN Err(HelpText)
    ELSE IF \E g \in cmd : g.name = args[1] THEN
        LET g == CHOOSE g \in cmd : g.name = args[1] IN
        IF IsCli(g.of) THEN
            LET r == TryGetMatchesFrom(Command(TaskCmds(g.of)), Tail(args)) IN
            IF IsErr(r) THEN r
            ELSE Ok([args |-> <<>>, subcommand |-> Some(<<g.name, r[2]>>)])
        ELSE IF LeafAccepts(g.of, Tail(args)) THEN
            Ok([args |-> <<>>,
                subcommand |-> Some(<<g.name, [args |-> Tail(args), subcommand |-> None]>>)])
        ELSE Err(UnexpectedArgument)
    ELSE IF args[1] = help THEN Err(HelpText)
    ELSE Err(UnrecognizedSubcommand)

\* a parse without the early return on an empty argv
ParseNoEmptyCheck(reg, l) ==
    LET args == ShlexSplit(l) IN
    IF args = None THEN [ret |-> Err(InvalidQuoting), consulted |-> 0]
    ELSE LET r == TryGetMatchesFrom(Command(reg), args[1]) IN
         [ret |-> IF IsErr(r) THEN r ELSE Ok(Some(r[2])),
          consulted |-> 1]

\* a parse that falls back to a plain whitespace split when quoting is invalid
ParseLenientQuoting(reg, l) ==
    LET split == ShlexSplit(l)
        args == IF split = None THEN SplitWhitespace(l) ELSE split[1]
    IN
    IF args = <<>> THEN [ret |-> Ok(None), consulted |-> 0]
    ELSE LET r == TryGetMatchesFrom(Command(reg), args) IN
         [ret |-> IF IsErr(r) THEN r ELSE Ok(Some(r[2])),
          consulted |-> 1]

\* Cli::parse
Parse(reg, l) ==
    LET args == ShlexSplit(l) IN
    IF args = None THEN [ret |-> Err(InvalidQuoting), consulted |-> 0]
    ELSE IF args[1] = <<>> THEN [ret |-> Ok(None), consulted |-> 0]
    ELSE LET r == TryGetMatchesFrom(Command(reg), args[1]) IN
         [ret |-> IF IsErr(r) THEN r ELSE Ok(Some(r[2])),
          consulted |-> 1]

RECURSIVE ActionAlwaysContinue(_, _, _)
\* an action that routes to the Task but answers Continue itself
ActionAlwaysContinue(reg, matches, by) ==
    IF matches.subcommand = None THEN [act |-> Panicked, calls |-> <<>>]
    ELSE
        LET name == matches.subcommand[1][1]
            m == matches.subcommand[1][2]
        IN
        IF name \notin DOMAIN reg THEN [act |-> Panicked, calls |-> <<>>]
        ELSE
            LET t == reg[name]
                call == [by |-> by, task |-> t, name |-> name, matches |-> m]
            IN
            IF IsCli(t) THEN
                LET r == ActionAlwaysContinue(TaskCmds(t), m, t) IN
                [act |-> "Continue", calls |-> <<call>> \o r.calls]
            ELSE [act |-> "Continue", calls |-> <<call>>]

RECURSIVE Action(_, _, _)
\* <Cli as Task>::action: the action returned and the Task invocations made;
\* by names the Dispatcher that looks the Task up ("root" or a nested Cli)
Action(reg, matches, by) ==
    IF matches.subcommand = None THEN [act |-> Panicked, calls |-> <<>>]
    ELSE
        LET name == matches.subcommand[1][1]
            m == matches.subcommand[1][2]
        IN
        IF name \notin DOMAIN reg THEN [act |-> Panicked, calls |-> <<>>]
        ELSE
            LET t == reg[name]
                call == [by |-> by, task |-> t, name |-> name, matches |-> m]
            IN
            IF IsCli(t) THEN
                LET r == Action(TaskCmds(t), m, t) IN
                [act |-> r.act, calls |-> <<call>> \o r.calls]
            ELSE [act |-> LeafAction(t, m.args), calls |-> <<call>>]

\* Cli::run
Run(reg, l) ==
    LET p == Parse(reg, l) IN
    IF IsErr(p.ret) THEN [ret |-> p.ret, invoked |-> <<>>, consulted |-> p.consulted]
    ELSE IF p.ret[2] = None
         THEN [ret |-> Ok("Continue"), invoked |-> <<>>, consulted |-> p.consulted]
    ELSE LET a == Action(reg, p.ret[2][1], "root") IN
         [ret |-> IF a.act = Panicked THEN Panic ELSE Ok(a.act),
          invoked |-> a.calls, consulted |-> p.consulted]

\* the inner closure of run_batch's flat_map: s.split(';').map(|s| s.trim())
SplitSegment(s) ==
    LET parts == Split(s, ";") IN [i \in 1..Len(parts) |-> Trim(parts[i])]

RECURSIVE FlatMapSplit(_)
\* flat_map of that closure over the trimmed segments
FlatMapSplit(segs) ==
    IF segs = <<>> THEN <<>>
    ELSE SplitSegment(Head(segs)) \o FlatMapSplit(Tail(segs))

RECURSIVE FlatMapSplitOnly(_)
\* flat_map of a closure that splits on semicolons and does not trim
FlatMapSplitOnly(segs) ==
    IF segs = <<>> THEN <<>>
    ELSE Split(Head(segs), ";") \o FlatMapSplitOnly(Tail(segs))

\* run_batch without the trim that follows the split on semicolons
BatchLinesUntrimmed(text) ==
    LET segs == Split(text, "\n")
        trimmed == [i \in 1..Len(segs) |-> Trim(segs[i])]
    IN FlatMapSplitOnly(trimmed)

\* a run_batch that leaves a text whole when it tokenizes as one line and a
\* separator of it stands inside a quotation
BatchLinesQuoteAware(text) ==
    IF /\ ShlexSplit(text) # None
       /\ \E i \in 1..Len(text) :
            text[i] \in {";", "\n"} /\ ShlexSplit(SubSeq(text, 1, i - 1)) = None
    THEN <<Trim(text)>>
    ELSE LET segs == Split(text, "\n")
             trimmed == [i \in 1..Len(segs) |-> Trim(segs[i])]
         IN FlatMapSplit(trimmed)

\* the iterator run_batch loops over
BatchLines(text) ==
    LET segs == Split(text, "\n")
        trimmed == [i \in 1..Len(segs) |-> Trim(segs[i])]
    IN FlatMapSplit(trimmed)

RECURSIVE BatchLoopKeepsGoing(_, _, _, _)
\* a run_batch that notes the first error and runs the remaining lines
BatchLoopKeepsGoing(reg, lines, inv, con) ==
    IF lines = <<>> THEN [ret |-> Ok(<<>>), invoked |-> inv, consulted |-> con]
    ELSE
        LET r == Run(reg, Head(lines))
            rest == BatchLoopKeepsGoing(reg, Tail(lines), inv \o r.invoked, con + r.consulted)
        IN [ret |-> IF IsErr(r.ret) THEN r.ret ELSE rest.ret,
            invoked |-> rest.invoked, consulted |-> rest.consulted]

RECURSIVE BatchLoopStopsOnAction(_, _, _, _)
\* a run_batch that ends, as the session does, when a Task answers Break or Exit
BatchLoopStopsOnAction(reg, lines, inv, con) ==
    IF lines = <<>> THEN [ret |-> Ok(<<>>), invoked |-> inv, consulted |-> con]
    ELSE
        LET r == Run(reg, Head(lines)) IN
        IF r.ret = Panic \/ IsErr(r.ret)
        THEN [ret |-> r.ret, invoked |-> inv \o r.invoked, consulted |-> con + r.consulted]
        ELSE IF r.ret # Ok("Continue")
        THEN [ret |-> Ok(<<>>), invoked |-> inv \o r.invoked, consulted |-> con + r.consulted]
        ELSE BatchLoopStopsOnAction(reg, Tail(lines), inv \o r.invoked, con + r.consulted)

RECURSIVE BatchLoop(_, _, _, _)
\* the for loop of run_batch: self.run(line)? on each line in turn
BatchLoop(reg, lines, inv, con) ==
    IF lines = <<>> THEN [ret |-> Ok(<<>>), invoked |-> inv, consulted |-> con]
    ELSE
        LET r == Run(reg, Head(lines)) IN
        IF r.ret = Panic \/ IsErr(r.ret)
        THEN [ret |-> r.ret, invoked |-> inv \o r.invoked, consulted |-> con + r.consulted]
        ELSE BatchLoop(reg, Tail(lines), inv \o r.invoked, con + r.consulted)

\* Cli::run_batch
RunBatch(reg, text) == BatchLoop(reg, BatchLines(text), <<>>, 0)

-----------------------------------------------------------------------------
(* Completion.                                                             *)

\* Suggest::search of the line-editing library: a registered candidate the
\* query is a prefix of (the query itself when it is registered), or None.
\* Which of several longer candidates is found is left open.
Search(cands, q) ==
    IF q \in cands THEN {Some(q)}
    ELSE IF \E c \in cands : IsPrefix(q, c)
         THEN {Some(c) : c \in {d \in cands : IsPrefix(q, d)}}
    ELSE {None}

\* a complete that answers the empty string when the search finds nothing
CompleteOrDefault(l, text) ==
    {IF r = None THEN <<>> ELSE r[1] : r \in Search(l, text)}

\* complete: s.search(&g).unwrap_or(g)
Complete(l, text) ==
    {IF r = None THEN text ELSE r[1] : r \in Search(l, text)}

\* a suggests that answers nothing when the Task answers nothing
MapOrElseNoFallback(reg, args, c) ==
    IF c = None THEN {None}
    ELSE {Some(Join(<<args[1], c[1]>>, <<" ">>))}

\* a suggests that hands the Task's answer back as it is
MapOrElseChildOnly(reg, args, c) ==
    IF c = None
    THEN {Some(r) : r \in Complete(DOMAIN reg \cup {help}, args[1])}
    ELSE {Some(c[1])}

\* a suggests that ranks against the registered names only
MapOrElseNoHelp(reg, args, c) ==
    IF c = None
    THEN {Some(r) : r \in Complete(DOMAIN reg, args[1])}
    ELSE {Some(Join(<<args[1], c[1]>>, <<" ">>))}

\* a suggests that puts the remaining tokens back after the ranked one
MapOrElseKeepsRest(reg, args, c) ==
    IF c = None
    THEN {Some(Join(<<r>> \o Tail(args), <<" ">>)) :
            r \in Complete(DOMAIN reg \cup {help}, args[1])}
    ELSE {Some(Join(<<args[1], c[1]>>, <<" ">>))}

\* the map_or_else that ends suggests, applied to the flattened result c of
\* the registry lookup and the Task's own suggests
MapOrElse(reg, args, c) ==
    IF c = None
    THEN {Some(r) : r \in Complete(DOMAIN reg \cup {help}, args[1])}
    ELSE {Some(Join(<<args[1], c[1]>>, <<" ">>))}

RECURSIVE Suggests(_, _)

\* what a registered Task's suggests can return: a leaf's own completion, or
\* the suggests of a nested Cli
TaskSuggests(t, args) ==
    IF IsCli(t) THEN Suggests(TaskCmds(t), args) ELSE {LeafSuggests(t, args)}

\* a slice that still holds the Task's own name
RestKeepsName(args) == args

\* &args[1..]: the tokens after the first
Rest(args) == Tail(args)

\* self.cmds.get(*a).map(|c| c.suggests(&args[1..])).flatten()
Lookup(reg, args) ==
    IF args[1] \in DOMAIN reg THEN TaskSuggests(reg[args[1]], Rest(args)) ELSE {None}

\* <Cli as Task>::suggests: the set of values it can return
Suggests(reg, args) ==
    IF args = <<>> THEN {None}
    ELSE UNION {MapOrElse(reg, args, c) : c \in Lookup(reg, args)}

RECURSIVE SuggestsCalls(_, _, _)
\* the calls of Task::suggests that suggests makes, nested Dispatchers
\* included: who calls, which Task, under which name, with which tokens
SuggestsCalls(reg, args, by) ==
    IF args = <<>> \/ args[1] \notin DOMAIN reg THEN <<>>
    ELSE LET t == reg[args[1]]
             call == [by |-> by, task |-> t, name |-> args[1], args |-> Rest(args)]
         IN <<call>> \o (IF IsCli(t) THEN SuggestsCalls(TaskCmds(t), Rest(args), t)
                         ELSE <<>>)

-----------------------------------------------------------------------------
(* Inputs.                                                                 *)

RECURSIVE Concats(_, _)
\* the concatenations of at most n pieces
Concats(pieces, n) ==
    IF n = 0 THEN {<<>>}
    ELSE LET shorter == Concats(pieces, n - 1) IN
         shorter \cup {t \o w : t \in shorter, w \in pieces}

RECURSIVE SeqsUpTo(_, _)
\* the sequences of at most n elements of S
SeqsUpTo(S, n) ==
    IF n = 0 THEN {<<>>}
    ELSE LET shorter == SeqsUpTo(S, n - 1) IN
         shorter \cup {Append(t, e) : t \in shorter, e \in S}

LinePieces ==
    {deploy, status, sub \o <<" ">> \o up, x, help,
     <<" ">>, <<"\n">>, <<"\r">>, <<"\"">>, <<"\\">>}

\* the lines given to parse and run
Lines == Concats(LinePieces, MaxPieces)

\* the fragments of a batch text: what stands between two separators
RawFrags ==
    {<<" ", "\r">>,
     <<" ">> \o deploy \o <<" ">> \o x \o <<"\r">>,
     status,
     deploy \o <<" ", "\"">> \o x,
     x \o <<"\"">>,
     <<"#">> \o x}

BatchSeps == {";", "\n"}

RECURSIVE JoinWith(_, _)
\* frags[1] seps[1] frags[2] seps[2] ... frags[n]
JoinWith(frags, seps) ==
    IF Len(frags) = 1 THEN frags[1]
    ELSE frags[1] \o <<seps[1]>> \o JoinWith(Tail(frags), Tail(seps))

SuggestTokens == {deploy, dep, sub, up, he, fo, x}

TokenLists == SeqsUpTo(SuggestTokens, MaxTokens)

TypedPieces == {status, deploy \o <<" ">> \o fo, <<"\"">>, <<" ">>}

-----------------------------------------------------------------------------
(* The operations.                                                         *)

\* parse, run, run_batch, suggests and the session take &self and leave the
\* Cli as it is, so a behaviour is a construction followed by one operation
Constructed == pc = "idle" /\ op.name \in {"new", "add_task"}

\* no key event has been handled
NoKey == [event |-> "none", result |-> <<>>]

NoSession ==
    /\ pc' = "idle" /\ buffer' = <<>> /\ line' = <<>> /\ printed' = <<>>
    /\ typed' = 0 /\ nread' = 0 /\ key' = NoKey

Init ==
    /\ cmds = <<>>
    /\ shared = FALSE
    /\ op = [name |-> "new", input |-> <<>>, frags |-> <<>>]
    /\ ret = <<>>
    /\ invoked = <<>>
    /\ consulted = 0
    /\ pc = "idle"
    /\ buffer = <<>>
    /\ line = <<>>
    /\ printed = <<>>
    /\ typed = 0
    /\ nread = 0
    /\ key = NoKey
    /\ asked = <<>>

\* Cli::add_task, a step of the builder chain that follows new; it consumes
\* the Cli, and is impossible once the Cli is in an Arc
AddTask(t) ==
    /\ Constructed /\ ~shared
    /\ cmds' = Insert(cmds, t)
    /\ op' = [name |-> "add_task", input |-> <<t>>, frags |-> <<>>]
    /\ ret' = <<>> /\ invoked' = <<>> /\ consulted' = 0 /\ asked' = <<>>
    /\ NoSession
    /\ UNCHANGED shared

CallParse(l) ==
    /\ Constructed
    /\ \E r \in {Parse(cmds, l)} :
        /\ ret' = r.ret
        /\ consulted' = r.consulted
    /\ op' = [name |-> "parse", input |-> l, frags |-> <<>>]
    /\ invoked' = <<>> /\ asked' = <<>>
    /\ NoSession
    /\ UNCHANGED <<cmds, shared>>

\* a run that takes the Task it dispatches to out of the registry
CallRunTakesTask(l) ==
    /\ Constructed
    /\ \E r \in {Run(cmds, l)} :
        /\ ret' = r.ret
        /\ invoked' = r.invoked
        /\ consulted' = r.consulted
        /\ cmds' = [n \in DOMAIN cmds \ {r.invoked[i].name : i \in 1..Len(r.invoked)} |-> cmds[n]]
    /\ op' = [name |-> "run", input |-> l, frags |-> <<>>]
    /\ asked' = <<>>
    /\ NoSession
    /\ UNCHANGED shared

CallRun(l) ==
    /\ Constructed
    /\ \E r \in {Run(cmds, l)} :
        /\ ret' = r.ret
        /\ invoked' = r.invoked
        /\ consulted' = r.consulted
    /\ op' = [name |-> "run", input |-> l, frags |-> <<>>]
    /\ asked' = <<>>
    /\ NoSession
    /\ UNCHANGED <<cmds, shared>>

CallRunBatch(frags, seps) ==
    /\ Constructed
    /\ \E text \in {JoinWith(frags, seps)} : \E r \in {RunBatch(cmds, text)} :
        /\ ret' = r.ret
        /\ invoked' = r.invoked
        /\ consulted' = r.consulted
        /\ op' = [name |-> "run_batch", input |-> text, frags |-> frags]
    /\ asked' = <<>>
    /\ NoSession
    /\ UNCHANGED <<cmds, shared>>

CallSuggests(args) ==
    /\ Constructed
    /\ \E r \in Suggests(cmds, args) : ret' = Ok(r)
    /\ op' = [name |-> "suggests", input |-> args, frags |-> <<>>]
    /\ asked' = SuggestsCalls(cmds, args, "root")
    /\ invoked' = <<>> /\ consulted' = 0
    /\ NoSession
    /\ UNCHANGED <<cmds, shared>>

\* run_interactive_with up to the loop: the prompt is built
InteractiveStart ==
    /\ Constructed
    /\ shared' = TRUE
    /\ op' = [name |-> "run_interactive", input |-> <<>>, frags |-> <<>>]
    /\ ret' = <<>> /\ invoked' = <<>> /\ consulted' = 0
    /\ pc' = "Reading"
    /\ buffer' = <<>> /\ line' = <<>> /\ printed' = <<>> /\ typed' = 0 /\ nread' = 0
    /\ key' = NoKey /\ asked' = <<>>
    /\ UNCHANGED cmds

\* run_interactive_with when build() fails: map_err(..)?
InteractiveBuildFail ==
    /\ Constructed
    /\ shared' = TRUE
    /\ op' = [name |-> "run_interactive", input |-> <<>>, frags |-> <<>>]
    /\ ret' = Err(BuildError) /\ invoked' = <<>> /\ consulted' = 0
    /\ pc' = "Done"
    /\ buffer' = <<>> /\ line' = <<>> /\ printed' = <<>> /\ typed' = 0 /\ nread' = 0
    /\ key' = NoKey /\ asked' = <<>>
    /\ UNCHANGED cmds

\* the editing engine inserts typed characters into the buffer
KeyChar(p) ==
    /\ pc = "Reading"
    /\ typed < MaxBuf
    /\ buffer' = buffer \o p
    /\ typed' = typed + 1
    /\ key' = [event |-> "Char", result |-> Ok(FALSE)]
    /\ asked' = <<>>
    /\ UNCHANGED <<cmds, shared, op, ret, invoked, consulted, pc, line, printed, nread>>

\* a Tab handler that empties the buffer when nothing is suggested
KeyTabClearsWhenNone ==
    /\ pc = "Reading"
    /\ \E r \in Suggests(cmds, SplitWhitespace(buffer)) :
            buffer' = IF r = None THEN <<>> ELSE r[1]
    /\ key' = [event |-> "Tab", result |-> Ok(FALSE)]
    /\ asked' = SuggestsCalls(cmds, SplitWhitespace(buffer), "root")
    /\ UNCHANGED <<cmds, shared, op, ret, invoked, consulted, pc, line, printed, typed, nread>>

\* the Tab handler installed by prompt
KeyTab ==
    /\ pc = "Reading"
    /\ \E r \in Suggests(cmds, SplitWhitespace(buffer)) :
            buffer' = IF r = None THEN buffer ELSE r[1]
    /\ key' = [event |-> "Tab", result |-> Ok(FALSE)]
    /\ asked' = SuggestsCalls(cmds, SplitWhitespace(buffer), "root")
    /\ UNCHANGED <<cmds, shared, op, ret, invoked, consulted, pc, line, printed, typed, nread>>

\* the engine's accept-line handling: prompt.run() returns the buffer
KeyEnter ==
    /\ pc = "Reading"
    /\ nread < MaxLines
    /\ line' = buffer
    /\ buffer' = <<>>
    /\ typed' = 0
    /\ nread' = nread + 1
    /\ pc' = "Dispatching"
    /\ key' = [event |-> "Enter", result |-> Ok(TRUE)]
    /\ asked' = <<>>
    /\ UNCHANGED <<cmds, shared, op, ret, invoked, consulted, printed>>

\* a Ctrl-C handler that enters the line without resetting the buffer first
KeyCtrlCKeepsBuffer ==
    /\ pc = "Reading"
    /\ nread < MaxLines
    /\ line' = buffer
    /\ buffer' = <<>>
    /\ typed' = 0
    /\ nread' = nread + 1
    /\ pc' = "Dispatching"
    /\ key' = [event |-> "CtrlC", result |-> Ok(TRUE)]
    /\ asked' = <<>>
    /\ UNCHANGED <<cmds, shared, op, ret, invoked, consulted, printed>>

\* the Ctrl-C handler installed by prompt: a fresh buffer, then enter
KeyCtrlC ==
    /\ pc = "Reading"
    /\ nread < MaxLines
    /\ line' = <<>>
    /\ buffer' = <<>>
    /\ typed' = 0
    /\ nread' = nread + 1
    /\ pc' = "Dispatching"
    /\ key' = [event |-> "CtrlC", result |-> Ok(TRUE)]
    /\ asked' = <<>>
    /\ UNCHANGED <<cmds, shared, op, ret, invoked, consulted, printed>>

\* a failed read that ends the loop as if a Task had answered Exit
ReadFailReturnsExit ==
    /\ pc = "Reading"
    /\ ret' = Ok("Exit")
    /\ pc' = "Done"
    /\ key' = [event |-> "Error", result |-> Err(ReadError)]
    /\ UNCHANGED <<cmds, shared, op, invoked, consulted, buffer, line, printed, typed, nread,
                   asked>>

\* prompt.run() fails: map_err(..)?
ReadFail ==
    /\ pc = "Reading"
    /\ ret' = Err(ReadError)
    /\ pc' = "Done"
    /\ key' = [event |-> "Error", result |-> Err(ReadError)]
    /\ UNCHANGED <<cmds, shared, op, invoked, consulted, buffer, line, printed, typed, nread,
                   asked>>

\* a loop that propagates the error of run instead of printing it
LoopBodyStopsOnError ==
    /\ pc = "Dispatching"
    /\ \E r \in {Run(cmds, line)} :
        /\ invoked' = invoked \o r.invoked
        /\ consulted' = consulted + r.consulted
        /\ printed' = printed
        /\ IF r.ret = Panic \/ IsErr(r.ret) THEN pc' = "Done" /\ ret' = r.ret
           ELSE IF r.ret[2] # "Continue" THEN pc' = "Done" /\ ret' = r.ret
           ELSE pc' = "Reading" /\ ret' = ret
    /\ line' = <<>>
    /\ key' = NoKey
    /\ UNCHANGED <<cmds, shared, op, buffer, typed, nread, asked>>

\* a loop that only Exit ends: Break is treated like Continue
LoopBodyIgnoresBreak ==
    /\ pc = "Dispatching"
    /\ \E r \in {Run(cmds, line)} :
       LET action == IF IsErr(r.ret) \/ r.ret = Ok("Break") THEN "Continue" ELSE r.ret[2] IN
        /\ invoked' = invoked \o r.invoked
        /\ consulted' = consulted + r.consulted
        /\ printed' = IF IsErr(r.ret) THEN Append(printed, r.ret[2]) ELSE printed
        /\ IF r.ret = Panic THEN pc' = "Done" /\ ret' = Panic
           ELSE IF action # "Continue" THEN pc' = "Done" /\ ret' = Ok(action)
           ELSE pc' = "Reading" /\ ret' = ret
    /\ line' = <<>>
    /\ key' = NoKey
    /\ UNCHANGED <<cmds, shared, op, buffer, typed, nread, asked>>

\* the rest of one iteration of the loop, after prompt.run() returned
LoopBody ==
    /\ pc = "Dispatching"
    /\ \E r \in {Run(cmds, line)} :
       LET action == IF IsErr(r.ret) THEN "Continue" ELSE r.ret[2] IN
        /\ invoked' = invoked \o r.invoked
        /\ consulted' = consulted + r.consulted
        /\ printed' = IF IsErr(r.ret) THEN Append(printed, r.ret[2]) ELSE printed
        /\ IF r.ret = Panic THEN pc' = "Done" /\ ret' = Panic
           ELSE IF action # "Continue" THEN pc' = "Done" /\ ret' = Ok(action)
           ELSE pc' = "Reading" /\ ret' = ret
    /\ line' = <<>>
    /\ key' = NoKey
    /\ UNCHANGED <<cmds, shared, op, buffer, typed, nread, asked>>

Next ==
    \/ Constructed /\ ~shared /\ \E t \in Tasks : AddTask(t)
    \/ Constructed /\ \E l \in Lines : CallParse(l)
    \/ Constructed /\ \E l \in Lines : CallRun(l)
    \/ Constructed /\ \E n \in 1..MaxFrags : \E frags \in [1..n -> RawFrags] :
            \E seps \in [1..(n - 1) -> BatchSeps] : CallRunBatch(frags, seps)
    \/ Constructed /\ \E args \in TokenLists : CallSuggests(args)
    \/ InteractiveStart
    \/ InteractiveBuildFail
    \/ pc = "Reading" /\ \E p \in TypedPieces : KeyChar(p)
    \/ KeyTab
    \/ KeyEnter
    \/ KeyCtrlC
    \/ ReadFail
    \/ LoopBody

Spec == Init /\ [][Next]_vars

-----------------------------------------------------------------------------
(* complete on its own: a free function, applied to sets of candidates and *)
(* to queries, and then once more to what it returned.                     *)

MaxCands == 3       \* candidates handed to complete

CompleteWords == {deploy, dep, status, help, he}

CompleteQueries == CompleteWords \cup {<<>>, <<"d">>, x}

CandidateSets == {l \in SUBSET CompleteWords : Cardinality(l) <= MaxCands}

\* complete(l, text); op.frags holds the candidates
CallComplete(l, text) ==
    /\ op.name = "new"
    /\ \E r \in Complete(l, text) : ret' = r
    /\ op' = [name |-> "complete", input |-> text, frags |-> l]
    /\ UNCHANGED <<cmds, shared, invoked, consulted, pc, buffer, line, printed, typed, nread,
                   key, asked>>

\* complete(l, complete(l, text)): complete applied to its own result
CallCompleteAgain ==
    /\ op.name = "complete"
    /\ \E r \in Complete(op.frags, ret) : ret' = r
    /\ op' = [name |-> "complete_again", input |-> ret, frags |-> op.frags]
    /\ UNCHANGED <<cmds, shared, invoked, consulted, pc, buffer, line, printed, typed, nread,
                   key, asked>>

NextComplete ==
    \/ \E l \in CandidateSets : \E text \in CompleteQueries : CallComplete(l, text)
    \/ CallCompleteAgain

SpecComplete == Init /\ [][NextComplete]_vars

-----------------------------------------------------------------------------
(* Properties.                                                             *)

IsRoot(c) == c.by = "root"

\* the invocations the root Dispatcher made itself
RootCalls == SelectSeq(invoked, IsRoot)

RECURSIVE MatchesArgv(_)
\* the argv an ArgMatches was parsed from
MatchesArgv(m) ==
    m.args \o (IF m.subcommand = None THEN <<>>
               ELSE <<m.subcommand[1][1]>> \o MatchesArgv(m.subcommand[1][2]))

\* the command line a Task invocation stands for: its name and arguments
CallArgv(c) == <<c.name>> \o MatchesArgv(c.matches)

\* the tokens of a fragment of a batch text, once trimmed
Tokens(f) == LET a == ShlexSplit(Trim(f)) IN IF a = None THEN <<>> ELSE a[1]

RECURSIVE Dispatched(_)
\* the token lists of the fragments that are not blank (hold a token)
Dispatched(frags) ==
    IF frags = <<>> THEN <<>>
    ELSE (IF Tokens(Head(frags)) = <<>> THEN <<>> ELSE <<Tokens(Head(frags))>>)
         \o Dispatched(Tail(frags))

\* C1: when run_batch succeeds on a text, the Task invocations made by the
\* Dispatcher are, in order, exactly the text's fragments that are not blank:
\* the text cut at every line break and every semicolon, each fragment
\* trimmed, one invocation per fragment with that fragment's tokens.
C1_BatchDispatchesInOrder ==
    (op.name = "run_batch" /\ IsOk(ret)) =>
        [i \in 1..Len(RootCalls) |-> CallArgv(RootCalls[i])] = Dispatched(op.frags)

\* a batch of three commands cut by a semicolon and a line break, with padding
C1_Witness ==
    /\ op.name = "run_batch" /\ IsOk(ret)
    /\ Len(RootCalls) = 3
    /\ \E i \in 1..Len(op.input) : op.input[i] = ";"
    /\ \E i \in 1..Len(op.input) : op.input[i] = "\n"
    /\ \E i \in 1..Len(op.frags) : op.frags[i] # Trim(op.frags[i])

RECURSIVE FirstErrFrom(_, _)
\* the index of the first fragment from the k-th on whose run fails, 0 when
\* none does
FirstErrFrom(frags, k) ==
    IF k > Len(frags) THEN 0
    ELSE IF IsErr(Run(cmds, Trim(frags[k])).ret) THEN k
    ELSE FirstErrFrom(frags, k + 1)

\* the index of the first fragment whose run fails, 0 when none does
FirstErr(frags) == FirstErrFrom(frags, 1)

RECURSIVE InvokedBefore(_, _)
\* the invocations run makes for the fragments before the k-th
InvokedBefore(frags, k) ==
    IF k <= 1 THEN <<>>
    ELSE InvokedBefore(frags, k - 1) \o Run(cmds, Trim(frags[k - 1])).invoked

\* C2: run_batch is fail-fast and not transactional: when fragment k is the
\* first whose run returns an error, run_batch returns that error and the
\* invocations made are exactly those of the fragments before k, none for a
\* later fragment; without a failing fragment it returns Ok(()).
C2_BatchFailFast ==
    op.name = "run_batch" =>
        LET k == FirstErr(op.frags) IN
        IF k = 0 THEN ret = Ok(<<>>)
        ELSE /\ ret = Run(cmds, Trim(op.frags[k])).ret
             /\ invoked = InvokedBefore(op.frags, k)

\* a batch that fails at its second fragment after a dispatch, with a third
\* fragment that would have been dispatched
C2_Witness ==
    /\ op.name = "run_batch" /\ IsErr(ret)
    /\ FirstErr(op.frags) = 2 /\ Len(op.frags) = 3
    /\ invoked # <<>>
    /\ Run(cmds, Trim(op.frags[3])).invoked # <<>>

AllWhitespace(l) == \A i \in 1..Len(l) : IsWhitespace(l[i])

AllShlexSpace(l) == \A i \in 1..Len(l) : ShlexSpace(l[i])

\* C3 as stated: for every line that is empty or holds only whitespace, parse
\* returns no matches and run returns Ok(Continue) with no Task invoked.
C3_Original ==
    /\ (op.name = "parse" /\ AllWhitespace(op.input)) => ret = Ok(None)
    /\ (op.name = "run" /\ AllWhitespace(op.input)) =>
            (ret = Ok("Continue") /\ invoked = <<>>)

\* C3: for every line that is empty or holds only the whitespace of the shell
\* tokenizer (spaces, tabs, line feeds), parse returns no matches, not an
\* error, and run returns Ok(Continue) with no Task invoked and the grammar
\* parser not consulted.
C3_BlankLineContinues ==
    /\ (op.name = "parse" /\ AllShlexSpace(op.input)) =>
            (ret = Ok(None) /\ consulted = 0)
    /\ (op.name = "run" /\ AllShlexSpace(op.input)) =>
            (ret = Ok("Continue") /\ invoked = <<>> /\ consulted = 0)

\* run on a line of spaces and line feeds, with Tasks registered
C3_Witness ==
    /\ op.name = "run" /\ Len(op.input) >= 2 /\ AllShlexSpace(op.input)
    /\ \E i \in 1..Len(op.input) : op.input[i] = "\n"
    /\ DOMAIN cmds # {}
    /\ ret = Ok("Continue")

\* C4: for every line the shell tokenizer rejects, parse and run return the
\* error "error: Invalid quoting", no Task is invoked and the grammar parser
\* is not consulted.
C4_InvalidQuoting ==
    (op.name \in {"parse", "run"} /\ ShlexSplit(op.input) = None) =>
        (ret = Err("error: Invalid quoting") /\ invoked = <<>> /\ consulted = 0)

\* run on a registered name followed by an unbalanced quote
C4_Witness ==
    /\ op.name = "run" /\ ShlexSplit(op.input) = None
    /\ \E n \in DOMAIN cmds : IsPrefix(n \o <<" ", "\"">>, op.input)
    /\ IsErr(ret)

\* whether the merged grammar accepts the line
Accepted(l) ==
    LET a == ShlexSplit(l) IN
    /\ a # None
    /\ a[1] # <<>>
    /\ IsOk(TryGetMatchesFrom(Command(cmds), a[1]))

RECURSIVE ExpectedAction(_, _)
\* what Task t answers to the arguments that follow its name
ExpectedAction(t, rest) ==
    IF IsCli(t) THEN ExpectedAction(TaskCmds(t)[rest[1]], Tail(rest))
    ELSE LeafAction(t, rest)

\* the registry of the Dispatcher that made an invocation
RegistryOf(by) == IF by = "root" THEN cmds ELSE TaskCmds(by)

\* C5: for every line the merged grammar accepts, run makes exactly one Task
\* invocation of its own, on the Task registered under the line's first
\* token and with the line's arguments, and returns that Task's Action
\* unchanged; every invocation is of a name its Dispatcher has registered,
\* and the lookup in action never fails.
C5_DispatchesSelectedTask ==
    /\ ret # Panic
    /\ \A i \in 1..Len(invoked) :
            /\ invoked[i].name \in DOMAIN RegistryOf(invoked[i].by)
            /\ invoked[i].task = RegistryOf(invoked[i].by)[invoked[i].name]
    /\ (op.name = "run" /\ Accepted(op.input)) =>
            LET argv == ShlexSplit(op.input)[1] IN
            /\ Len(RootCalls) = 1
            /\ RootCalls[1].task = cmds[argv[1]]
            /\ CallArgv(RootCalls[1]) = argv
            /\ ret = Ok(ExpectedAction(cmds[argv[1]], Tail(argv)))

\* an accepted line whose Task answers Break or Exit, through a nested Cli too
C5_Witness ==
    /\ op.name = "run" /\ Accepted(op.input)
    /\ ret \in {Ok("Break"), Ok("Exit")}
    /\ Len(RootCalls) = 1

\* suggests was called with a first token that names a registered Task
SuggestsOnRegistered ==
    op.name = "suggests" /\ op.input # <<>> /\ op.input[1] \in DOMAIN cmds

\* suggests was called with a first token that names no registered Task
SuggestsOnUnregistered ==
    op.name = "suggests" /\ op.input # <<>> /\ op.input[1] \notin DOMAIN cmds

\* what the Task named by the first token answers to the remaining tokens
ChildAnswers == TaskSuggests(cmds[op.input[1]], Tail(op.input))

\* the names the first token is ranked against
Candidates == DOMAIN cmds \cup {help}

\* C6 as stated: when the first token names a registered Task and that Task
\* suggests nothing, the Dispatcher suggests nothing.
C6_Original ==
    (SuggestsOnRegistered /\ ChildAnswers = {None}) => ret = Ok(None)

\* C6: when the first token names a registered Task and that Task suggests
\* nothing, the Dispatcher does fall back: it returns the first token ranked
\* against the registered names and "help", a single name of that set.
C6_FallsBackToRanking ==
    (SuggestsOnRegistered /\ ChildAnswers = {None}) =>
        /\ ret # Ok(None)
        /\ ret[2][1] \in Candidates
        /\ IsPrefix(op.input[1], ret[2][1])

\* a registered name followed by a token its Task has no suggestion for
C6_Witness ==
    /\ SuggestsOnRegistered /\ ChildAnswers = {None}
    /\ Len(op.input) = 2
    /\ ret = Ok(Some(op.input[1]))

\* C7 as stated: when the first token names a registered Task and that Task
\* suggests r, the Dispatcher returns r.
C7_Original ==
    (SuggestsOnRegistered /\ None \notin ChildAnswers) => ret[2] \in ChildAnswers

\* C7: when the first token names a registered Task and that Task suggests
\* r, the Dispatcher returns the first token, a space and r.
C7_ReturnsNameThenChild ==
    (SuggestsOnRegistered /\ None \notin ChildAnswers) =>
        \E c \in ChildAnswers : ret = Ok(Some(op.input[1] \o <<" ">> \o c[1]))

\* suggests on (deploy, --fo), whose Task completes the option
C7_Witness ==
    /\ SuggestsOnRegistered /\ None \notin ChildAnswers
    /\ op.input = <<deploy, fo>>
    /\ ret = Ok(Some(deploy \o <<" ">> \o force))

\* C8: when the first token names no registered Task, the Dispatcher returns
\* that token ranked against exactly the registered names and "help": a name
\* of that set the token is a prefix of, or the token itself when there is
\* none; with Tasks deploy and status, suggests on (dep) returns deploy.
C8_RanksNamesAndHelp ==
    /\ SuggestsOnUnregistered =>
            /\ ret # Ok(None)
            /\ IF \E c \in Candidates : IsPrefix(op.input[1], c)
               THEN ret[2][1] \in Candidates /\ IsPrefix(op.input[1], ret[2][1])
               ELSE ret[2][1] = op.input[1]
    /\ (op.name = "suggests" /\ DOMAIN cmds = {deploy, status} /\ op.input = <<dep>>) =>
            ret = Ok(Some(deploy))

\* suggests on (dep) with the Tasks deploy and status
C8_Witness ==
    /\ op.name = "suggests" /\ DOMAIN cmds = {deploy, status}
    /\ op.input = <<dep>>
    /\ ret = Ok(Some(deploy))

\* C9 as stated: when the first token names no registered Task and more
\* tokens follow, the result is the ranked first token followed by the
\* remaining tokens.
C9_Original ==
    (SuggestsOnUnregistered /\ Len(op.input) > 1) =>
        \E r \in Complete(Candidates, op.input[1]) :
            ret = Ok(Some(Join(<<r>> \o Tail(op.input), <<" ">>)))

\* C9: when the first token names no registered Task and more tokens follow,
\* the result is the ranked first token alone: the tokens after the first
\* are not part of it.
C9_DropsLaterTokens ==
    (SuggestsOnUnregistered /\ Len(op.input) > 1) =>
        /\ ret # Ok(None)
        /\ ret[2][1] \in Complete(Candidates, op.input[1])
        /\ SplitWhitespace(ret[2][1]) = <<ret[2][1]>>

\* suggests on (dep, x) with deploy registered: the answer is deploy alone
C9_Witness ==
    /\ SuggestsOnUnregistered /\ op.input = <<dep, x>>
    /\ deploy \in DOMAIN cmds
    /\ ret = Ok(Some(deploy))

\* the line holds a quoting error or is rejected by the merged grammar
LineFails(l) ==
    \/ ShlexSplit(l) = None
    \/ /\ ShlexSplit(l)[1] # <<>>
       /\ IsErr(TryGetMatchesFrom(Command(cmds), ShlexSplit(l)[1]))

\* the line is dispatched to a Task that answers Break or Exit
LineStops(l) ==
    /\ Accepted(l)
    /\ ExpectedAction(cmds[ShlexSplit(l)[1][1]], Tail(ShlexSplit(l)[1])) \in {"Break", "Exit"}

\* C10: in the interactive session a line with a quoting or grammar error
\* is printed and the loop goes back to reading with no Task invoked; the
\* loop ends only when the engine's read fails or when the line read was
\* dispatched to a Task that answered Break or Exit.
C10_ErrorsKeepLooping ==
    [][/\ (pc = "Dispatching" /\ LineFails(line)) =>
            /\ pc' = "Reading"
            /\ printed' = Append(printed,
                    IF ShlexSplit(line) = None THEN "error: Invalid quoting"
                    ELSE TryGetMatchesFrom(Command(cmds), ShlexSplit(line)[1])[2])
            /\ invoked' = invoked
            /\ ret' = ret
       /\ (pc \in {"Reading", "Dispatching"} /\ pc' = "Done") =>
            \/ pc = "Reading" /\ IsErr(ret')
            \/ pc = "Dispatching" /\ LineStops(line) /\ ret' \in {Ok("Break"), Ok("Exit")}
      ]_vars

\* a session back at reading after a quoting error and a grammar error
C10_Witness ==
    /\ pc = "Reading" /\ nread = 2
    /\ Len(printed) = 2
    /\ printed[1] = "error: Invalid quoting"
    /\ printed[2] = "error: unrecognized subcommand"

\* C11: in the interactive session, when the line read is dispatched to a
\* Task that answers Break or Exit, the loop ends at once and returns
\* exactly that action; after the session has ended no further line is read,
\* no further Task is invoked and the value returned does not change.
C11_StopActionEndsSession ==
    [][/\ (pc = "Dispatching" /\ LineStops(line)) =>
            /\ pc' = "Done"
            /\ ret' = Ok(ExpectedAction(cmds[ShlexSplit(line)[1][1]],
                                        Tail(ShlexSplit(line)[1])))
            /\ nread' = nread
            /\ Len(SelectSeq(invoked', IsRoot)) = Len(RootCalls) + 1
       /\ pc = "Done" =>
            (pc' = "Done" /\ nread' = nread /\ invoked' = invoked /\ ret' = ret)
      ]_vars

\* a session ended by Exit on its first line, with a further read allowed
C11_Witness ==
    /\ pc = "Done" /\ ret = Ok("Exit")
    /\ nread = 1 /\ nread < MaxLines
    /\ Len(RootCalls) = 1

\* C12: a Ctrl-C key event, whatever the edit buffer holds, leaves the buffer
\* empty and submits the empty line; the loop body that dispatches that line
\* invokes no Task, prints nothing, and goes back to reading: the session
\* does not end and returns nothing.
C12_InterruptSubmitsBlankLine ==
    [][/\ key'.event = "CtrlC" =>
            /\ pc = "Reading" /\ pc' = "Dispatching"
            /\ buffer' = <<>> /\ line' = <<>>
            /\ invoked' = invoked /\ ret' = ret /\ printed' = printed
       /\ (pc = "Dispatching" /\ key.event = "CtrlC") =>
            /\ pc' = "Reading"
            /\ invoked' = invoked /\ ret' = ret /\ printed' = printed
            /\ consulted' = consulted
      ]_vars

\* a Ctrl-C submitted as the second line of a session whose first line was
\* dispatched to a Task
C12_Witness ==
    /\ key.event = "CtrlC" /\ pc = "Dispatching"
    /\ line = <<>> /\ buffer = <<>>
    /\ nread = 2 /\ Len(invoked) = 1

\* C13: when the editing engine cannot be built, run_interactive_with
\* returns an error before any line is read or any Task invoked; when a read
\* fails, it returns an error, the loop ends, and the Task invocations made
\* for the lines read before stay as they are; an error is returned by the
\* session for these two reasons only, and nothing happens after it.
C13_EngineFailureEndsCall ==
    [][/\ (pc = "idle" /\ pc' = "Done") =>
            (ret' = Err(BuildError) /\ invoked' = <<>> /\ nread' = 0)
       /\ (pc = "Reading" /\ pc' = "Done") =>
            /\ ret' = Err(ReadError)
            /\ invoked' = invoked /\ printed' = printed /\ nread' = nread
       /\ (pc' = "Done" /\ IsErr(ret')) => ret' \in {Err(BuildError), Err(ReadError)}
       /\ (pc = "Done" /\ IsErr(ret)) => (pc' = "Done" /\ invoked' = invoked /\ ret' = ret)
      ]_vars

\* a read that failed after a line had been dispatched to a Task
C13_Witness ==
    /\ pc = "Done" /\ ret = Err(ReadError)
    /\ nread >= 1 /\ Len(invoked) >= 1

\* C14: the Tab handler asks the Dispatcher for a suggestion on the
\* whitespace-separated tokens of the edit buffer: the buffer becomes
\* exactly the suggestion when there is one, and stays as it is when there
\* is none, which is the case of an empty or whitespace-only buffer; the
\* handler returns Ok(false), no line is submitted and no Task's action is
\* invoked.
C14_TabReplacesBuffer ==
    [][key'.event = "Tab" =>
        /\ key'.result = Ok(FALSE)
        /\ IF SplitWhitespace(buffer) = <<>> THEN buffer' = buffer
           ELSE \E r \in Suggests(cmds, SplitWhitespace(buffer)) :
                    r # None /\ buffer' = r[1]
        /\ pc = "Reading" /\ pc' = "Reading"
        /\ line' = line /\ nread' = nread
        /\ invoked' = invoked /\ ret' = ret /\ printed' = printed
      ]_vars

\* Tab on the buffer "deploy --fo" has completed the option
C14_Witness ==
    /\ key.event = "Tab" /\ pc = "Reading"
    /\ buffer = deploy \o <<" ">> \o force
    /\ cmds[deploy] = "T_deploy"
    /\ invoked = <<>>

\* the names the merged grammar has a subcommand slot for
GrammarNames(reg) == {g.name : g \in Command(reg)}

C17_SuggestSeesOwnTokens ==
    op.name = "suggests" =>
        /\ Len(asked) <= Len(op.input)
        /\ \A i \in 1..Len(asked) :
            /\ asked[i].name = op.input[i]
            /\ asked[i].args = SubSeq(op.input, i + 1, Len(op.input))
            /\ asked[i].by = (IF i = 1 THEN "root" ELSE asked[i - 1].task)
            /\ asked[i].name \in DOMAIN RegistryOf(asked[i].by)
            /\ asked[i].task = RegistryOf(asked[i].by)[asked[i].name]
        /\ (op.input = <<>> \/ op.input[1] \notin DOMAIN cmds) => asked = <<>>
        /\ (op.input # <<>> /\ op.input[1] \in DOMAIN cmds) => asked # <<>>

\* suggests on (sub, up, x): the nested Cli is handed (up, x) and its Task
\* up is handed (x)
C17_Witness ==
    /\ op.name = "suggests" /\ op.input = <<sub, up, x>>
    /\ Len(asked) = 2
    /\ asked[1].task = "T_sub" /\ asked[1].args = <<up, x>>
    /\ asked[2].task = "T_up" /\ asked[2].args = <<x>>
    /\ ret = Ok(Some(sub \o <<" ">> \o up \o <<" ">> \o x))

\* C18: the registry changes in add_task only, and never once the Cli is
\* shared: parse, run, run_batch, suggests, the session's loop and its key
\* handlers leave the mapping from names to Tasks as it is. The Tab and
\* Ctrl-C handlers invoke no Task, print nothing and return nothing from the
\* session; Tab changes the edit buffer and nothing else of the session.
C18_RegistryImmutable ==
    [][/\ op'.name # "add_task" => cmds' = cmds
       /\ shared => (cmds' = cmds /\ shared')
       /\ key'.event \in {"Tab", "CtrlC"} =>
            /\ cmds' = cmds /\ op' = op /\ shared' = shared
            /\ invoked' = invoked /\ consulted' = consulted
            /\ ret' = ret /\ printed' = printed
       /\ key'.event = "Tab" => (pc' = pc /\ line' = line /\ nread' = nread)
      ]_vars

\* a shared Cli with three Tasks, after a dispatched line and a Tab
C18_Witness ==
    /\ shared /\ pc = "Reading" /\ key.event = "Tab"
    /\ nread = 1 /\ Len(invoked) = 1
    /\ DOMAIN cmds = {deploy, status, sub}

\* what run answers to the k-th fragment of a batch text
FragRet(k) == Run(cmds, Trim(op.frags[k])).ret

\* the index run_batch stops at: the first failing fragment, or past the end
BatchEnd == IF FirstErr(op.frags) = 0 THEN Len(op.frags) + 1 ELSE FirstErr(op.frags)

\* C19: when the Task of a fragment answers Break or Exit, run_batch goes
\* on: the fragments after it are dispatched in order up to the end of the
\* text or to the first failing fragment, and the value returned is Ok(())
\* or that fragment's error, never the Break or Exit.
C19_BatchIgnoresActions ==
    op.name = "run_batch" =>
        LET k == FirstErr(op.frags)
            end == IF k = 0 THEN Len(op.frags) + 1 ELSE k
        IN
        (\E j \in 1..(end - 1) : FragRet(j) \in {Ok("Break"), Ok("Exit")}) =>
            /\ end = BatchEnd
            /\ invoked = InvokedBefore(op.frags, end)
            /\ ret = (IF k = 0 THEN Ok(<<>>) ELSE FragRet(k))
            /\ IsOk(ret) => ret[2] = <<>>

\* a batch of three fragments answered Exit, Break and Continue, all of them
\* dispatched
C19_Witness ==
    /\ op.name = "run_batch" /\ ret = Ok(<<>>)
    /\ Len(op.frags) = 3 /\ Len(RootCalls) = 3
    /\ FragRet(1) = Ok("Exit") /\ FragRet(2) = Ok("Break")

\* the position of the first semicolon or line break of s, 0 when it has none
FirstSeparator(s) ==
    IF \E i \in 1..Len(s) : s[i] \in {";", "\n"}
    THEN CHOOSE i \in 1..Len(s) :
            s[i] \in {";", "\n"} /\ \A j \in 1..(i - 1) : s[j] \notin {";", "\n"}
    ELSE 0

\* the first separator of s stands inside a quotation: what precedes it does
\* not tokenize, while s as a whole does
FirstSeparatorQuoted(s) ==
    LET i == FirstSeparator(s) IN
    /\ i > 0
    /\ ShlexSplit(SubSeq(s, 1, i - 1)) = None
    /\ ShlexSplit(s) # None

\* C20: run_batch cuts a text at its semicolons and line breaks before it
\* tokenizes, those inside quotes included: for a text that run accepts and
\* dispatches as one command, and whose first separator stands inside a
\* quoted argument, run_batch returns "error: Invalid quoting", invokes no
\* Task and does not consult the grammar parser.
C20_BatchSplitsInsideQuotes ==
    (op.name = "run_batch" /\ FirstSeparatorQuoted(op.input) /\ Accepted(op.input)) =>
        /\ ret = Err("error: Invalid quoting")
        /\ invoked = <<>>
        /\ consulted = 0
        /\ IsOk(Run(cmds, op.input).ret)
        /\ Len(Run(cmds, op.input).invoked) = 1
        /\ \E a \in 1..Len(ShlexSplit(op.input)[1]) :
            \E i \in 1..Len(ShlexSplit(op.input)[1][a]) :
                ShlexSplit(op.input)[1][a][i] \in {";", "\n"}

\* run_batch on deploy "x;x", which run dispatches with the argument x;x
C20_Witness ==
    /\ op.name = "run_batch"
    /\ op.input = deploy \o <<" ", "\"", "x", ";", "x", "\"">>
    /\ deploy \in DOMAIN cmds
    /\ ret = Err("error: Invalid quoting") /\ invoked = <<>>
    /\ CallArgv(Run(cmds, op.input).invoked[1]) = <<deploy, <<"x", ";", "x">>>>

====
